---- MODULE Spec2Model ----
(***************************************************************************)
(* A model of dockui (src/dockui.py, src/utils.py): the curses dashboard    *)
(* that shows the docker engine's disk usage.  The state is the DockUI      *)
(* object (snapshot, view mode, rows, columns, cursor, scroll offset), the  *)
(* engine behind the docker client, and the position of the main loop.      *)
(* One action models one iteration of DockUI.loop for one class of keys:    *)
(* getch returns the key, getmaxyx is read, process_input runs, the frame   *)
(* is drawn.  An uncaught Python exception ends the loop (pc = "crashed").  *)
(* self.clicked_row is written by the enter key and never read; it is not  *)
(* part of the state.                                                       *)
(***************************************************************************)
EXTENDS Integers, Sequences, FiniteSets, TLC

VARIABLES
    engine,          \* the docker engine behind docker_client
    docker_info,     \* self.docker_info
    docker_df,       \* self.docker_df
    docker_root_fs,  \* self.docker_root_fs
    view_mode,       \* self.view_mode
    render_mode,     \* self.render_mode
    rows,            \* self.rows
    cols,            \* self.cols
    cursor_x,        \* self.cursor_x
    cursor_y,        \* self.cursor_y
    offset_y,        \* self.offset_y
    height,          \* self.height
    width,           \* self.width
    k,               \* self.k, the key the last frame processed
    pc,              \* position of the program: start, getch, crashed, done
    calls,           \* engine-client calls issued by the last frame, in order
    reads,           \* keys read from the terminal inside the last frame
    err,             \* the exception that ended the loop, "" while it runs
    lk               \* the case under study in the specifications of one
                     \* function: the field lookup (SpecLookup,
                     \* SpecResolve), the
                     \* terminal held fixed (SpecScroll, SpecSettle,
                     \* SpecTerm), the
                     \* list a mode
                     \* handler sorts (SpecSort), the column list and
                     \* terminal width of a table (SpecWidths)

vars == << engine, docker_info, docker_df, docker_root_fs, view_mode,
           render_mode, rows, cols, cursor_x, cursor_y,
           offset_y, height, width, k, pc, calls, reads, err, lk >>

(***************************************************************************)
(* Bounds of the model.                                                     *)
(***************************************************************************)
MaxOffset == 2       \* frames are explored while offset_y stays <= MaxOffset
MaxCursorX == 1      \* the right key is explored while cursor_x < MaxCursorX
MaxCursorY == 4      \* the down key is explored while cursor_y < MaxCursorY

(***************************************************************************)
(* Program constants.                                                       *)
(***************************************************************************)
VIEW_MODE_SUMMARY == 0
VIEW_MODE_IMAGES == 1
VIEW_MODE_CONTAINERS == 2
VIEW_MODE_VOLUMES == 3
VIEW_MODE_BUILD_CACHE == 4
VIEW_MODE_SYSTEM_INFO == 5
RENDER_MODE_ROWS == 0
RENDER_MODE_TABLE == 1
ModeCount == 6
Chrome == 5
Lookahead == 4
BarWidth == 50

(***************************************************************************)
(* Sequence helpers.                                                        *)
(***************************************************************************)
RECURSIVE SumSeq(_)
SumSeq(s) == IF s = << >> THEN 0 ELSE Head(s) + SumSeq(Tail(s))

Min2(a, b) == IF a < b THEN a ELSE b
Max2(a, b) == IF a > b THEN a ELSE b

\* Python's sorted(xs, key=..., reverse=True) is descending and stable.
\* keys[i] is the sort key of xs[i]; the result lists the indices of xs in
\* sorted order.
RECURSIVE InsertDesc(_, _, _)
InsertDesc(perm, i, keys) ==
    IF perm = << >> THEN << i >>
    ELSE IF keys[Head(perm)] >= keys[i]
         THEN << Head(perm) >> \o InsertDesc(Tail(perm), i, keys)
         ELSE << i >> \o perm

RECURSIVE SortPermDesc(_, _)
SortPermDesc(n, keys) ==
    IF n = 0 THEN << >>
    ELSE InsertDesc(SortPermDesc(n - 1, keys), n, keys)

\* a slip: reverse=True left out, the order is ascending
SortedDesc_NotReversed(xs, keys) ==
    LET perm == SortPermDesc(Len(xs), keys)
    IN  [i \in 1..Len(xs) |-> xs[perm[Len(xs) + 1 - i]]]

SortedDesc(xs, keys) ==
    LET perm == SortPermDesc(Len(xs), keys)
    IN  [i \in 1..Len(xs) |-> xs[perm[i]]]

(***************************************************************************)
(* src/utils.py: the formatters.  A Python str is a TLA+ string.            *)
(***************************************************************************)
\* round(a / b): Python rounds halves to even
RoundDiv(a, b) ==
    LET q == a \div b
        r == a % b
    IN  IF 2 * r > b THEN q + 1
        ELSE IF 2 * r < b THEN q
        ELSE IF q % 2 = 0 THEN q ELSE q + 1

RECURSIVE Log1024(_)
Log1024(n) == IF n < 1024 THEN 0 ELSE 1 + Log1024(n \div 1024)

RECURSIVE Pow1024(_)
Pow1024(i) == IF i = 0 THEN 1 ELSE 1024 * Pow1024(i - 1)

size_name == << "B", "KB", "MB", "GB", "TB", "PB", "EB", "ZB", "YB" >>

\* str() of a float that has at most two decimals, given in hundredths
FloatStr(h) ==
    LET f == h % 100
    IN  ToString(h \div 100) \o "." \o
        (IF f % 10 = 0 THEN ToString(f \div 10)
         ELSE IF f < 10 THEN "0" \o ToString(f) ELSE ToString(f))

convert_size(size_bytes) ==
    IF size_bytes = 0 THEN "0B"
    ELSE LET i == Log1024(size_bytes)
             s == RoundDiv(size_bytes * 100, Pow1024(i))
         IN  FloatStr(s) \o " " \o size_name[i + 1]

\* A timestamp is an epoch in seconds; the text keeps the minute.
format_date(timestamp) == "min " \o ToString(timestamp \div 60)

RECURSIVE Rep(_, _)
Rep(ch, n) == IF n <= 0 THEN "" ELSE ch \o Rep(ch, n - 1)

part_chars == << " ", "1", "2", "3", "4", "5", "6", "7" >>

\* progress is the fraction num/den, den > 0; "#" stands for the full block
\* and the digit i for the block of i eighths.
progress_bar(barw, num, den) ==
    LET n == Max2(0, Min2(num, den))
        whole_width == (n * barw) \div den
        part_width == (((n * barw) % den) * 8) \div den
        part_char == IF barw - whole_width - 1 < 0 THEN ""
                     ELSE part_chars[part_width + 1]
    IN  "[" \o Rep("#", whole_width) \o part_char
            \o Rep(" ", barw - whole_width - 1) \o "]"

\* f"{round(progress * 100, 1)}%"
PercentStr(num, den) ==
    LET t == RoundDiv(num * 1000, den)
    IN  ToString(t \div 10) \o "." \o ToString(t % 10) \o "%"

(***************************************************************************)
(* The docker engine: what docker_client.info(), docker_client.df() and     *)
(* the "df" run of determine_root_fs_usage answer.  The engine holds a set  *)
(* of containers, which the delete key shrinks, and the set of df keys its  *)
(* answers leave out.  The program is the engine's only user.               *)
(***************************************************************************)
ContainerIds == { "c1", "c2" }

ContainerRecord(id) ==
    IF id = "c1"
    THEN [ Id |-> "c1", Names |-> << "/web" >>, Command |-> "nginx",
           Image |-> "nginx:1", State |-> "exited",
           SizeRootFs |-> 1000, Created |-> 6000 ]
    ELSE [ Id |-> "c2", Names |-> << "/db", "/pg" >>, Command |-> "postgres",
           Image |-> "pg:15", State |-> "running",
           SizeRootFs |-> 3000, Created |-> 12000 ]

EngineImages ==
    << [ Id |-> "i1", RepoTags |-> << "app:1" >>, Size |-> 500,
         SharedSize |-> 0, VirtualSize |-> 500 ],
       [ Id |-> "i2", RepoTags |-> << "base:1", "base:2" >>, Size |-> 2000000,
         SharedSize |-> 100, VirtualSize |-> 2000000 ],
       [ Id |-> "i3", RepoTags |-> << "tiny:1" >>, Size |-> 10,
         SharedSize |-> 10, VirtualSize |-> 10 ] >>

EngineVolumes ==
    << [ Name |-> "v1", Mountpoint |-> "/var/lib/docker/volumes/v1",
         UsageData |-> [ Size |-> 70, RefCount |-> 1 ] ],
       [ Name |-> "v2", Mountpoint |-> "/var/lib/docker/volumes/v2",
         UsageData |-> [ Size |-> 300, RefCount |-> 0 ] ] >>

EngineBuildCache ==
    << [ ID |-> "b1", Type |-> "regular", Description |-> "RUN make",
         Size |-> 4096, Shared |-> FALSE, InUse |-> TRUE,
         LastUsedAt |-> 18000 ] >>

\* (used, total, available) as determine_root_fs_usage returns it
EngineRootFs == << 2048000, 4096000, 2048000 >>

DfKeys == { "LayersSize", "Images", "Containers", "Volumes", "BuildCache",
            "BuilderSize" }

\* the partial answers of df() the model explores
AbsentOptions == { {}, { "Volumes" } }

\* the engine lists its containers in the order of their ids
ContainerList(ids) ==
    (IF "c1" \in ids THEN << ContainerRecord("c1") >> ELSE << >>)
    \o (IF "c2" \in ids THEN << ContainerRecord("c2") >> ELSE << >>)

DfValue(e, key) ==
    CASE key = "LayersSize" -> 2000510
      [] key = "BuilderSize" -> 4096
      [] key = "Images" -> EngineImages
      [] key = "Containers" -> ContainerList(e.containers)
      [] key = "Volumes" -> EngineVolumes
      [] key = "BuildCache" -> EngineBuildCache

\* docker_client.df()
EngineDf(e) == [ key \in DfKeys \ e.absent |-> DfValue(e, key) ]

\* docker_client.info(): a dict, kept as the list of its (key, value) items
EngineInfo(e) ==
    << << "ID", "ABCD" >>,
       << "Containers", Cardinality(e.containers) >>,
       << "Images", Len(EngineImages) >>,
       << "Driver", "overlay2" >>,
       << "KernelVersion", "6.1" >>,
       << "OperatingSystem", "Debian" >>,
       << "OSType", "linux" >>,
       << "Name", "host" >>,
       << "ServerVersion", "24.0" >> >>

InfoHas(di, key) == \E i \in 1..Len(di) : di[i][1] = key
InfoGet(di, key) == di[CHOOSE i \in 1..Len(di) : di[i][1] = key][2]

(***************************************************************************)
(* The row model.  A row is [kind, row]: kind names the Python class        *)
(*   "KeyVal" DisplayKeyVal, "Summary" DisplayTableSummaryRow,              *)
(*   "Image" DisplayTableImagesRow, "Container" DisplayTableContainerRow,   *)
(*   "Volume" DisplayTableVolumeRow, "BuildCache" DisplayTableBuildCacheRow *)
(* and row is self.row: the raw record, or the text of a DisplayStr.        *)
(* A lookup answers [ok, ty, v]: ok is FALSE when the code raises (ty then  *)
(* names the exception), else ty is the Python type of the value v.         *)
(***************************************************************************)
TableKinds == { "Summary", "Image", "Container", "Volume", "BuildCache" }

Returned(ty, v) == [ ok |-> TRUE, ty |-> ty, v |-> v ]
Raised(exc, what) == [ ok |-> FALSE, ty |-> exc, v |-> what ]

\* str.lower() on the field names in use
Lower(index) ==
    CASE index = "RepoTags" -> "repotags"
      [] index = "Size" -> "size"
      [] index = "SharedSize" -> "sharedsize"
      [] index = "VirtualSize" -> "virtualsize"
      [] index = "Labels" -> "labels"
      [] index = "Names" -> "names"
      [] index = "Command" -> "command"
      [] index = "Image" -> "image"
      [] index = "State" -> "state"
      [] index = "SizeRootFs" -> "sizerootfs"
      [] index = "Created" -> "created"
      [] index = "NetworkSettings" -> "networksettings"
      [] index = "Name" -> "name"
      [] index = "Mountpoint" -> "mountpoint"
      [] index = "UsageData" -> "usagedata"
      [] index = "Type" -> "type"
      [] index = "Description" -> "description"
      [] index = "Shared" -> "shared"
      [] index = "InUse" -> "inuse"
      [] index = "LastUsedAt" -> "lastusedat"
      [] index = "Value" -> "value"
      [] index = "Percent" -> "percent"
      [] index = "Progress" -> "progress"
      [] index = "Id" -> "id"
      [] index = "ID" -> "id"
      [] index = "Display_Info" -> "display_info"
      [] index = "SIZE" -> "size"
      [] index = "NAMES" -> "names"
      [] index = "Nope" -> "nope"
      [] OTHER -> index

\* the names n for which the class of the row has a method _get_<n>
GetMethods(kind) ==
    { "display_info" } \cup
    CASE kind = "Volume" -> { "size", "usagedata", "labels" }
      [] kind = "Container" -> { "sizerootfs", "created", "names",
                                 "networksettings" }
      [] kind = "Image" -> { "repotags", "size", "sharedsize", "virtualsize",
                             "labels" }
      [] kind = "BuildCache" -> { "size", "lastusedat", "shared", "inuse" }
      [] OTHER -> {}

\* the Python type of the raw value under a key of a raw record
RawType(r, index) ==
    CASE index \in { "Size", "SharedSize", "VirtualSize", "SizeRootFs",
                     "Created", "LastUsedAt" } -> "int"
      [] index \in { "Names", "RepoTags" } -> "list"
      [] index \in { "UsageData", "Labels", "NetworkSettings" } -> "dict"
      [] index \in { "Shared", "InUse" } -> "bool"
      [] index = "Value" /\ r.kind = "Summary" -> r.value_type
      [] OTHER -> "str"

\* ",".join(xs)
RECURSIVE Join(_)
Join(xs) ==
    IF xs = << >> THEN ""
    ELSE IF Len(xs) = 1 THEN xs[1]
    ELSE xs[1] \o "," \o Join(Tail(xs))

StripFirst(s) == SubSeq(s, 2, Len(s))

\* the result of a _get_ method that reads self.row[key]: v, the text it
\* makes of the value, or the KeyError of a record without the key
WithKey(r, key, v) ==
    IF key \in DOMAIN r.row THEN Returned("str", v) ELSE Raised("KeyError", key)

JsonDumps(v) == "{json}"
YesNo(b) == IF b THEN "yes" ELSE "no"
JoinStripped(names) == Join([ i \in 1..Len(names) |-> StripFirst(names[i]) ])

\* DisplayTableVolumeRow._get_size
VolumeSize(r) ==
    IF "UsageData" \notin DOMAIN r.row THEN Raised("KeyError", "UsageData")
    ELSE IF "Size" \notin DOMAIN r.row["UsageData"]
         THEN Raised("KeyError", "Size")
         ELSE Returned("str", convert_size(r.row["UsageData"]["Size"]))

\* the _get_<m> methods other than _get_display_info
GetMethod(r, m) ==
    CASE r.kind = "Volume" /\ m = "size" -> VolumeSize(r)
      [] r.kind = "Volume" /\ m = "usagedata" ->
            WithKey(r, "UsageData", JsonDumps(r.row["UsageData"]))
      [] r.kind = "Volume" /\ m = "labels" ->
            WithKey(r, "Labels", JsonDumps(r.row["Labels"]))
      [] r.kind = "Container" /\ m = "sizerootfs" ->
            WithKey(r, "SizeRootFs", convert_size(r.row["SizeRootFs"]))
      [] r.kind = "Container" /\ m = "created" ->
            WithKey(r, "Created", format_date(r.row["Created"]))
      [] r.kind = "Container" /\ m = "names" ->
            WithKey(r, "Names", JoinStripped(r.row["Names"]))
      [] r.kind = "Container" /\ m = "networksettings" ->
            WithKey(r, "NetworkSettings", JsonDumps(r.row["NetworkSettings"]))
      [] r.kind = "Image" /\ m = "repotags" ->
            WithKey(r, "RepoTags", Join(r.row["RepoTags"]))
      [] r.kind = "Image" /\ m = "size" ->
            WithKey(r, "Size", convert_size(r.row["Size"]))
      [] r.kind = "Image" /\ m = "sharedsize" ->
            WithKey(r, "SharedSize", convert_size(r.row["SharedSize"]))
      [] r.kind = "Image" /\ m = "virtualsize" ->
            WithKey(r, "VirtualSize", convert_size(r.row["VirtualSize"]))
      [] r.kind = "Image" /\ m = "labels" ->
            WithKey(r, "Labels", JsonDumps(r.row["Labels"]))
      [] r.kind = "BuildCache" /\ m = "size" ->
            WithKey(r, "Size", convert_size(r.row["Size"]))
      [] r.kind = "BuildCache" /\ m = "lastusedat" ->
            WithKey(r, "LastUsedAt", format_date(r.row["LastUsedAt"]))
      [] r.kind = "BuildCache" /\ m = "shared" ->
            WithKey(r, "Shared", YesNo(r.row["Shared"]))
      [] r.kind = "BuildCache" /\ m = "inuse" ->
            WithKey(r, "InUse", YesNo(r.row["InUse"]))

\* a slip: the key of the raw record is tried before the _get_ method
GetField_RawFirst(r, index) ==
    IF index \in DOMAIN r.row
    THEN Returned(RawType(r, index), r.row[index])
    ELSE IF Lower(index) \in GetMethods(r.kind) \ { "display_info" }
         THEN GetMethod(r, Lower(index))
         ELSE Returned("str", "")

\* DisplayTableRow.__getitem__ for every index but "display_info"
GetField(r, index) ==
    IF Lower(index) \in GetMethods(r.kind) \ { "display_info" }
    THEN GetMethod(r, Lower(index))
    ELSE IF index \in DOMAIN r.row
         THEN Returned(RawType(r, index), r.row[index])
         ELSE Returned("str", "")

\* DisplayTableRow._get_display_info: one or more lines per key of the raw
\* record; it raises when the lookup of a key raises.
DisplayInfo(r) ==
    IF \E key \in DOMAIN r.row : ~GetField(r, key).ok
    THEN Raised("KeyError", "display_info")
    ELSE Returned("list", Cardinality(DOMAIN r.row))

\* DisplayTableRow.__getitem__
GetItem(r, index) ==
    IF Lower(index) = "display_info" THEN DisplayInfo(r)
    ELSE GetField(r, index)

(***************************************************************************)
(* The column model and the rows and columns of each view mode.             *)
(***************************************************************************)
\* DisplayTableColumn; the width is the fraction wnum/wden (25 is 25/1)
Column(name, wnum, wden, align) ==
    [ name |-> name, wnum |-> wnum, wden |-> wden, align |-> align,
      callback_fn |-> "", color_attr |-> 0 ]

PROGRESS_BAR == 30

\* DisplayTableSummaryRow.get_progress
get_progress(barw, num, den) ==
    IF num = 0 THEN "" ELSE progress_bar(barw, num, den)

\* DisplayTableSummaryRow(type, value, progress), progress = num/den
SummaryRow(type, value, value_type, num, den) ==
    [ kind |-> "Summary",
      row |-> [ Type |-> type, Value |-> value,
                Progress |-> get_progress(BarWidth, num, den),
                Percent |-> IF num > 0 THEN PercentStr(num, den) ELSE "" ],
      value_type |-> value_type,
      progress |-> << num, den >> ]

SizeRow(type, size, den) ==
    SummaryRow(type, convert_size(size), "str", size, den)
CountRow(type, n) == SummaryRow(type, n, "int", 0, 1)

summary_cols ==
    << Column("Type", 25, 1, "left"),
       Column("Value", 14, 1, "left"),
       Column("Percent", 10, 1, "right"),
       [ Column("Progress", 1, 2, "right") EXCEPT
           !.callback_fn = "get_progress", !.color_attr = PROGRESS_BAR ] >>

images_cols ==
    << Column("RepoTags", 1, 2, "left"),
       Column("Size", 12, 1, "right"),
       Column("SharedSize", 12, 1, "right"),
       Column("VirtualSize", 12, 1, "right") >>

volumes_cols ==
    << Column("Name", 3, 10, "left"),
       Column("Mountpoint", 1, 2, "left"),
       Column("Size", 12, 1, "right") >>

containers_cols ==
    << Column("Names", 35, 1, "left"),
       Column("Command", 1, 4, "left"),
       Column("Image", 3, 20, "left"),
       Column("State", 15, 1, "left"),
       Column("SizeRootFs", 12, 1, "right"),
       Column("Created", 18, 1, "right") >>

build_cache_cols ==
    << Column("Type", 20, 1, "left"),
       Column("Description", 2, 5, "left"),
       Column("Size", 12, 1, "right"),
       Column("Shared", 10, 1, "right"),
       Column("InUse", 10, 1, "right"),
       Column("LastUsedAt", 18, 1, "right") >>

\* what a draw_<mode> handler leaves behind: ok is FALSE when it raises
Content(rs, cs, rm) == [ ok |-> TRUE, rows |-> rs, cols |-> cs, render_mode |-> rm ]
NoContent == [ ok |-> FALSE, rows |-> << >>, cols |-> << >>, render_mode |-> 0 ]

Field(xs, key) == [ i \in 1..Len(xs) |-> xs[i][key] ]
UsageSizes(xs) == [ i \in 1..Len(xs) |-> xs[i]["UsageData"]["Size"] ]
Wrap(kind, xs) == [ i \in 1..Len(xs) |-> [ kind |-> kind, row |-> xs[i] ] ]

\* DockUI.draw_summary
draw_summary(df, fs) ==
    LET total == fs[2]
        dfHas(key) == key \in DOMAIN df
        divides == dfHas("Images") \/ dfHas("Volumes") \/ dfHas("Containers")
                   \/ dfHas("BuildCache")
                   \/ (dfHas("LayersSize") /\ dfHas("BuilderSize"))
        fsRows ==
            IF Len(fs) > 0
            THEN << SummaryRow("Root fs total", convert_size(fs[2]), "str", 0, 1),
                    SizeRow("Root fs used", fs[1], total),
                    SizeRow("Root fs available:", fs[3], total) >>
            ELSE << >>
        layerRows ==
            IF dfHas("LayersSize") /\ dfHas("BuilderSize")
            THEN << SizeRow("Layers size", df["LayersSize"], total),
                    SizeRow("Builder size", df["BuilderSize"], total) >>
            ELSE << >>
        imageRows ==
            IF dfHas("Images")
            THEN << CountRow("Images count", Len(df["Images"])),
                    SizeRow("Total images size",
                            SumSeq(Field(df["Images"], "Size")), total),
                    SummaryRow("Total images shared size",
                        convert_size(SumSeq(Field(df["Images"], "SharedSize"))),
                        "str", 0, 1) >>
            ELSE << >>
        volumeRows ==
            IF dfHas("Volumes")
            THEN << CountRow("Volumes count", Len(df["Volumes"])),
                    SizeRow("Total volumes size",
                            SumSeq(UsageSizes(df["Volumes"])), total) >>
            ELSE << >>
        containerRows ==
            IF dfHas("Containers")
            THEN << CountRow("Containers count", Len(df["Containers"])),
                    SizeRow("Total containers size",
                            SumSeq(Field(df["Containers"], "SizeRootFs")), total) >>
            ELSE << >>
        cacheRows ==
            IF dfHas("BuildCache")
            THEN << CountRow("Build caches count", Len(df["BuildCache"])),
                    SizeRow("Total build caches size",
                            SumSeq(Field(df["BuildCache"], "Size")), total) >>
            ELSE << >>
    IN  IF total = 0 /\ (Len(fs) > 0 \/ divides)
        THEN NoContent   \* ZeroDivisionError
        ELSE Content(fsRows \o layerRows \o imageRows \o volumeRows
                        \o containerRows \o cacheRows,
                     summary_cols, RENDER_MODE_TABLE)

\* DockUI.draw_images
draw_images(df) ==
    Content(IF "Images" \in DOMAIN df
            THEN Wrap("Image", SortedDesc(df["Images"], Field(df["Images"], "Size")))
            ELSE << >>,
            images_cols, RENDER_MODE_TABLE)

\* DockUI.draw_volumes
draw_volumes(df) ==
    Content(IF "Volumes" \in DOMAIN df
            THEN Wrap("Volume", SortedDesc(df["Volumes"], UsageSizes(df["Volumes"])))
            ELSE << >>,
            volumes_cols, RENDER_MODE_TABLE)

\* DockUI.draw_containers
draw_containers(df) ==
    Content(IF "Containers" \in DOMAIN df
            THEN Wrap("Container",
                      SortedDesc(df["Containers"], Field(df["Containers"], "Created")))
            ELSE << >>,
            containers_cols, RENDER_MODE_TABLE)

\* DockUI.draw_build_cache
draw_build_cache(df) ==
    Content(IF "BuildCache" \in DOMAIN df
            THEN Wrap("BuildCache",
                      SortedDesc(df["BuildCache"], Field(df["BuildCache"], "Size")))
            ELSE << >>,
            build_cache_cols, RENDER_MODE_TABLE)

main_keys == << "ServerVersion", "Name", "OperatingSystem", "OSType",
                "KernelVersion", "Containers", "Images" >>

\* str() of the value of an info key
InfoStr(key, val) == IF key \in { "Containers", "Images" } THEN ToString(val) ELSE val

\* DisplayKeyVal(key, val): f"{key:24}: {val}"
DisplayKeyVal(key, val) ==
    [ kind |-> "KeyVal",
      row |-> key \o Rep(" ", 24 - Len(key)) \o ": " \o InfoStr(key, val) ]

\* DockUI.draw_system_info; self.cols is left as it was
draw_system_info(di, oldcols) ==
    IF \E i \in 1..Len(main_keys) : ~InfoHas(di, main_keys[i])
    THEN NoContent   \* KeyError
    ELSE Content([ i \in 1..Len(main_keys) |->
                     DisplayKeyVal(main_keys[i], InfoGet(di, main_keys[i])) ]
                 \o [ i \in 1..Len(di) |-> DisplayKeyVal(di[i][1], di[i][2]) ],
                 oldcols, RENDER_MODE_ROWS)

\* DockUI._prepare_content: the handler of the mode
prepare_content(mode, di, df, fs, oldcols) ==
    CASE mode = VIEW_MODE_SUMMARY -> draw_summary(df, fs)
      [] mode = VIEW_MODE_IMAGES -> draw_images(df)
      [] mode = VIEW_MODE_VOLUMES -> draw_volumes(df)
      [] mode = VIEW_MODE_CONTAINERS -> draw_containers(df)
      [] mode = VIEW_MODE_BUILD_CACHE -> draw_build_cache(df)
      [] mode = VIEW_MODE_SYSTEM_INFO -> draw_system_info(di, oldcols)

(***************************************************************************)
(* One iteration of DockUI.loop.  The handlers work on a record of the      *)
(* object's fields ("the frame"); ok turns FALSE at the statement that      *)
(* raises, and the fields keep the values they had at that statement.       *)
(***************************************************************************)
Heights == { 8, 12 }         \* terminal heights getmaxyx may report
Widths == { 160 }            \* terminal widths getmaxyx may report

TabKeys == { "TAB" }
BackTabKeys == { "KEY_BTAB" }
DownKeys == { "KEY_DOWN", "j" }
UpKeys == { "KEY_UP", "k" }
RightKeys == { "KEY_RIGHT", "l" }
LeftKeys == { "KEY_LEFT", "h" }
EnterKeys == { "KEY_ENTER", "LF", "CR" }
RefreshKeys == { "^R" }
DeleteKeys == { "^D" }
QuitKeys == { "q" }
KnownKeys == TabKeys \cup BackTabKeys \cup DownKeys \cup UpKeys \cup RightKeys
             \cup LeftKeys \cup EnterKeys \cup RefreshKeys \cup DeleteKeys
             \cup QuitKeys
\* the keys getch returns in the model: one of each class
Keys == { "TAB", "KEY_BTAB", "KEY_DOWN", "KEY_UP", "KEY_RIGHT", "KEY_LEFT",
          "LF", "^R", "^D", "q", "x" }

\* the engine call that fails in a frame: its position among the calls of
\* the frame, 0 when every call succeeds
FailPoints == 0..5

Call(op, arg) == << op, arg >>

\* the fields at the top of an iteration: erase, getmaxyx, and the key
Begin(key, h, w) ==
    [ ok |-> TRUE, err |-> "", engine |-> engine,
      docker_info |-> docker_info, docker_df |-> docker_df,
      docker_root_fs |-> docker_root_fs,
      view_mode |-> view_mode, render_mode |-> render_mode,
      rows |-> rows, cols |-> cols,
      cursor_x |-> cursor_x, cursor_y |-> cursor_y,
      offset_y |-> offset_y,
      height |-> h, width |-> w, k |-> key,
      calls |-> << >>, reads |-> 0 ]

Raise(f, exc) == [ f EXCEPT !.ok = FALSE, !.err = exc ]

\* one call of the engine client: logged, and it raises when it is the
\* failing call of the frame
EngineCall(f, op, arg, failAt) ==
    IF ~f.ok THEN f
    ELSE IF failAt = Len(f.calls) + 1
         THEN Raise([ f EXCEPT !.calls = Append(@, Call(op, arg)) ],
                    "DockerException")
         ELSE [ f EXCEPT !.calls = Append(@, Call(op, arg)) ]

\* self.docker_info = self.docker_client.info()
FetchInfo(f) ==
    IF ~f.ok THEN f
    ELSE [ f EXCEPT !.docker_info = EngineInfo(f.engine) ]

\* self.docker_df = self.docker_client.df()
FetchDf(f) ==
    IF ~f.ok THEN f
    ELSE [ f EXCEPT !.docker_df = EngineDf(f.engine) ]

\* self.docker_root_fs = determine_root_fs_usage(self.docker_client)
FetchRootFs(f) ==
    IF ~f.ok THEN f
    ELSE [ f EXCEPT !.docker_root_fs = EngineRootFs ]

\* DockUI._fetch_docker_info: three calls, each result assigned at once
fetch_docker_info(f, failAt) ==
    FetchRootFs(EngineCall(
        FetchDf(EngineCall(
            FetchInfo(EngineCall(f, "info", "", failAt)),
            "df", "", failAt)),
        "run_df", "", failAt))

\* Python's list[i]: negative indices count from the end
PyIndexOk(i, n) == -n <= i /\ i < n
PyIndex(xs, i) == IF i < 0 THEN xs[Len(xs) + i + 1] ELSE xs[i + 1]

\* a slip: the first row instead of the row at the cursor
SelectedItem_FirstRow(f) == f.rows[1]

\* self.rows[self.cursor_y], lines 690 and 702
SelectedItem(f) == PyIndex(f.rows, f.cursor_y)

\* the rows, columns and render mode a draw handler leaves in the fields
SetContent(f, c) ==
    IF c.ok
    THEN [ f EXCEPT !.rows = c.rows, !.cols = c.cols,
                    !.render_mode = c.render_mode ]
    ELSE Raise(f, "Error in draw handler")

\* DockUI._prepare_content on the fields
PrepareContent(f) ==
    SetContent(f, prepare_content(f.view_mode, f.docker_info, f.docker_df,
                                  f.docker_root_fs, f.cols))

NextMode(m) == (m + 1) % ModeCount
\* a slip: previous-mode wraps from the first mode to the last
PrevMode_Wraps(m) == (m - 1) % ModeCount

PrevMode(m) == Max2(0, m - 1)

\* lines 299-302: the mode the key selects
KeyMode(key, m) ==
    IF key \in BackTabKeys THEN PrevMode(m)
    ELSE IF key \in TabKeys THEN NextMode(m)
    ELSE m

\* a slip: a mode switch that does not prepare the content of the new mode
SwitchMode_KeepsContent(f) ==
    IF KeyMode(f.k, f.view_mode) # f.view_mode
    THEN [ f EXCEPT !.view_mode = KeyMode(f.k, f.view_mode),
                    !.cursor_y = 0, !.offset_y = 0 ]
    ELSE f

\* a slip: a mode switch fetches the snapshot again before it derives rows
SwitchMode_Refetches(f) ==
    IF KeyMode(f.k, f.view_mode) # f.view_mode
    THEN PrepareContent(fetch_docker_info(
             [ f EXCEPT !.view_mode = KeyMode(f.k, f.view_mode),
                        !.cursor_y = 0, !.offset_y = 0 ], 0))
    ELSE f

\* process_input, lines 297-307: the mode keys
SwitchMode(f) ==
    IF KeyMode(f.k, f.view_mode) # f.view_mode
    THEN PrepareContent([ f EXCEPT !.view_mode = KeyMode(f.k, f.view_mode),
                                   !.cursor_y = 0, !.offset_y = 0 ])
    ELSE f

\* show_info(..., close_on_keypress=True): the panel waits for a key
WaitKey(f) == IF ~f.ok THEN f ELSE [ f EXCEPT !.reads = @ + 1 ]

\* self.docker_client.containers.get(id)
GetContainer(f, id) ==
    IF ~f.ok THEN f
    ELSE IF id \notin f.engine.containers THEN Raise(f, "NotFound")
    ELSE f

\* container.remove(v=True)
RemoveContainer(f, id) ==
    IF ~f.ok THEN f
    ELSE [ f EXCEPT !.engine.containers = @ \ { id } ]

\* lines 705-709: the overlay, then get and remove
DeleteContainer(f, id, failAt) ==
    RemoveContainer(EngineCall(
        GetContainer(EngineCall(WaitKey(f), "get", id, failAt), id),
        "remove", id, failAt), id)

\* DockUI._delete_selected_item
delete_selected_item(f, failAt) ==
    IF ~PyIndexOk(f.cursor_y, Len(f.rows)) THEN Raise(f, "IndexError")
    ELSE IF SelectedItem(f).kind = "Container"
         THEN IF "Id" \notin DOMAIN SelectedItem(f).row
              THEN Raise(f, "KeyError")
              ELSE fetch_docker_info(
                       DeleteContainer(f, SelectedItem(f).row["Id"], failAt),
                       failAt)
         ELSE fetch_docker_info(f, failAt)

\* a slip: the refresh key also resets the position, as a mode switch does
ControlKeys_RefreshResets(f, failAt) ==
    IF ~f.ok THEN f
    ELSE IF f.k \in RefreshKeys
         THEN [ fetch_docker_info(f, failAt) EXCEPT !.cursor_y = 0,
                                                    !.offset_y = 0 ]
    ELSE IF f.k \in DeleteKeys THEN delete_selected_item(f, failAt)
    ELSE f

\* process_input, lines 309-316: the control keys
ControlKeys(f, failAt) ==
    IF ~f.ok THEN f
    ELSE IF f.k \in RefreshKeys THEN fetch_docker_info(f, failAt)
    ELSE IF f.k \in DeleteKeys THEN delete_selected_item(f, failAt)
    ELSE f

\* DockUI.open_item_info: the panel waits for a key
open_item_info(f) ==
    IF ~PyIndexOk(f.cursor_y, Len(f.rows)) THEN Raise(f, "IndexError")
    ELSE IF SelectedItem(f).kind \in TableKinds /\ ~DisplayInfo(SelectedItem(f)).ok
         THEN Raise(f, "KeyError")
         ELSE WaitKey(f)

\* a slip: the last branch of the chain is an else, so any other key moves
\* the cursor down
MoveKeys_OtherKeyMovesDown(f) ==
    IF ~f.ok THEN f
    ELSE IF f.k \in DownKeys THEN [ f EXCEPT !.cursor_y = @ + 1 ]
    ELSE IF f.k \in UpKeys THEN [ f EXCEPT !.cursor_y = @ - 1 ]
    ELSE IF f.k \in RightKeys THEN [ f EXCEPT !.cursor_x = @ + 1 ]
    ELSE IF f.k \in LeftKeys THEN [ f EXCEPT !.cursor_x = @ - 1 ]
    ELSE IF f.k \in EnterKeys THEN open_item_info(f)
    ELSE [ f EXCEPT !.cursor_y = @ + 1 ]

\* process_input, lines 318-328: the cursor keys and enter
MoveKeys(f) ==
    IF ~f.ok THEN f
    ELSE IF f.k \in DownKeys THEN [ f EXCEPT !.cursor_y = @ + 1 ]
    ELSE IF f.k \in UpKeys THEN [ f EXCEPT !.cursor_y = @ - 1 ]
    ELSE IF f.k \in RightKeys THEN [ f EXCEPT !.cursor_x = @ + 1 ]
    ELSE IF f.k \in LeftKeys THEN [ f EXCEPT !.cursor_x = @ - 1 ]
    ELSE IF f.k \in EnterKeys THEN open_item_info(f)
    ELSE f

\* process_input, line 330
ClampX(x, w) == Min2(w - 1, Max2(0, x))

\* a slip: the cursor row is not held below the row count
ClampY_NoUpperBound(y, n) == Max2(0, y)

\* process_input, line 331
ClampY(y, n) == Min2(n - 1, Max2(0, y))

\* DockUI._client_height
client_height(h) == h - Chrome

\* a slip: the window never moves down after the cursor
Scroll_NeverDown(y, off, h) ==
    IF off > 0 /\ y - off < Lookahead THEN off - 1 ELSE off

\* a slip: the look-ahead of the downward test is one row short
Scroll_ShortLookahead(y, off, h) ==
    IF y - off + Lookahead - 1 > client_height(h) THEN off + 1
    ELSE IF off > 0 /\ y - off < Lookahead THEN off - 1
    ELSE off

\* process_input, lines 333-337: one step of the scrolling window
Scroll(y, off, h) ==
    IF y - off + Lookahead > client_height(h) THEN off + 1
    ELSE IF off > 0 /\ y - off < Lookahead THEN off - 1
    ELSE off

\* process_input, lines 330-337
ClampAndScroll(f) ==
    IF ~f.ok THEN f
    ELSE [ f EXCEPT !.cursor_x = ClampX(f.cursor_x, f.width),
                    !.cursor_y = ClampY(f.cursor_y, Len(f.rows)),
                    !.offset_y = Scroll(ClampY(f.cursor_y, Len(f.rows)),
                                        f.offset_y, f.height) ]

\* DockUI.process_input
process_input(f, failAt) ==
    ClampAndScroll(MoveKeys(ControlKeys(SwitchMode(f), failAt)))

(***************************************************************************)
(* DockUI.draw: what can raise in it, and the rows it puts on the screen.   *)
(***************************************************************************)
\* DockUI._items_end_offset
items_end_offset(n, off, h) == Min2(n, off + client_height(h))

\* the indices i of range(offset_y, _items_end_offset())
VisibleRows(f) ==
    { i \in 0..(Len(f.rows) - 1) :
        f.offset_y <= i /\ i < items_end_offset(Len(f.rows), f.offset_y, f.height) }

\* DockUI.draw_header: the keys it reads without a test
draw_header(f) ==
    /\ InfoHas(f.docker_info, "Images")
    /\ InfoHas(f.docker_info, "Containers")
    /\ { "Volumes", "LayersSize", "BuilderSize" } \subseteq DOMAIN f.docker_df
    /\ Len(f.docker_root_fs) >= 2

\* int(x) of the quotient a / b, b > 0: truncation towards zero
IntDiv(a, b) == IF a >= 0 THEN a \div b ELSE -((-a) \div b)

\* render_row, lines 427-429: the width of the cells of a column
cell_width(col, w) ==
    IF col.wnum < col.wden
    THEN IntDiv((w - 2) * col.wnum, col.wden)
    ELSE col.wnum \div col.wden

cell_padding == 2

\* render_row, lines 425-450: the offset after the last column, less the
\* start offset 1
row_extent(cs, w) ==
    SumSeq([ i \in 1..Len(cs) |-> cell_width(cs[i], w) + cell_padding ])

\* draw_table.render_row on a row of the table: every cell is produced
render_row(f, r) ==
    \A c \in 1..Len(f.cols) :
        \/ f.cols[c].callback_fn = "get_progress" /\ r.kind = "Summary"
        \/ GetItem(r, f.cols[c].name).ok

\* DockUI.draw_table
draw_table(f) == \A i \in VisibleRows(f) : render_row(f, f.rows[i + 1])

\* DockUI.draw: TRUE when the frame is drawn, FALSE when drawing raises
draw(f) ==
    /\ draw_header(f)
    /\ f.render_mode = RENDER_MODE_TABLE => draw_table(f)

\* the screen lines of a frame: the separator under the header, the column
\* header of a table, and the first body line of draw_rows and of draw_table
separator_y == 2
table_header_y == 3
rows_start_y == 3
table_start_y == 4

\* the last line of the chrome above the body rows
chrome_end(rm) == IF rm = RENDER_MODE_TABLE THEN table_header_y ELSE separator_y

\* draw_rows, draw_table: the line body row i is drawn on
row_y(rm, i, off) ==
    (IF rm = RENDER_MODE_TABLE THEN table_start_y ELSE rows_start_y) + i - off

\* draw_statusbar: the line of the status bar
statusbar_y(h) == h - 2

(***************************************************************************)
(* The actions.                                                             *)
(***************************************************************************)
\* the object's fields after the iteration, and where the program is
Store(f, drawn) ==
    /\ engine' = f.engine
    /\ docker_info' = f.docker_info
    /\ docker_df' = f.docker_df
    /\ docker_root_fs' = f.docker_root_fs
    /\ view_mode' = f.view_mode
    /\ render_mode' = f.render_mode
    /\ rows' = f.rows
    /\ cols' = f.cols
    /\ cursor_x' = f.cursor_x
    /\ cursor_y' = f.cursor_y
    /\ offset_y' = f.offset_y
    /\ height' = f.height
    /\ width' = f.width
    /\ k' = f.k
    /\ calls' = f.calls
    /\ reads' = f.reads
    /\ pc' = IF f.ok /\ drawn THEN "getch" ELSE "crashed"
    /\ err' = IF ~f.ok THEN f.err ELSE IF ~drawn THEN "KeyError" ELSE ""

\* the iterations Spec explores: those that end within the bounds
Commit(f, drawn) ==
    /\ f.offset_y <= MaxOffset
    /\ f.cursor_x <= MaxCursorX
    /\ f.cursor_y <= MaxCursorY
    /\ Store(f, drawn)
    /\ UNCHANGED lk

\* self.draw() and self.w.refresh() after process_input
Finish(f) == Commit(f, f.ok /\ draw(f))

\* one iteration of DockUI.loop on the key: process_input, then draw
Frame(key, h, w, failAt) == Finish(process_input(Begin(key, h, w), failAt))

\* the first iteration: self.k is 0 and no key has been read
FirstFrame ==
    /\ pc = "start"
    /\ \E h \in Heights, w \in Widths : Frame("NUL", h, w, 0)

\* a key that issues no engine call
KeyFrame(keys) ==
    /\ pc = "getch"
    /\ \E key \in keys \cap Keys, h \in Heights, w \in Widths :
          Frame(key, h, w, 0)

\* a key that calls the engine: any one of the calls may fail
EngineFrame(keys) ==
    /\ pc = "getch"
    /\ \E key \in keys \cap Keys, h \in Heights, w \in Widths, failAt \in FailPoints :
          Frame(key, h, w, failAt)

FrameTab == KeyFrame(TabKeys)
FrameBackTab == KeyFrame(BackTabKeys)
FrameDown == KeyFrame(DownKeys)
FrameUp == KeyFrame(UpKeys)
FrameRight == KeyFrame(RightKeys)
FrameLeft == KeyFrame(LeftKeys)
FrameEnter == KeyFrame(EnterKeys)
FrameRefresh == EngineFrame(RefreshKeys)
FrameDelete == EngineFrame(DeleteKeys)
FrameOther == KeyFrame(Keys \ KnownKeys)

\* DockUI.loop: the quit key ends the loop before anything else happens
Quit ==
    /\ pc = "getch"
    /\ \E key \in QuitKeys \cap Keys : k' = key
    /\ pc' = "done"
    /\ UNCHANGED << engine, docker_info, docker_df, docker_root_fs, view_mode,
                    render_mode, rows, cols, cursor_x, cursor_y,
                    offset_y, height, width, calls, reads, err, lk >>

NoLookup == [ done |-> FALSE ]

\* DockUI.__init__: the first fetch and _prepare_content, both without error
Init ==
    /\ engine \in [ containers : SUBSET ContainerIds, absent : AbsentOptions ]
    /\ docker_info = EngineInfo(engine)
    /\ docker_df = EngineDf(engine)
    /\ docker_root_fs = EngineRootFs
    /\ view_mode = VIEW_MODE_SUMMARY
    /\ \E c \in { draw_summary(docker_df, docker_root_fs) } :
           /\ c.ok
           /\ rows = c.rows
           /\ cols = c.cols
           /\ render_mode = c.render_mode
    /\ cursor_x = 0
    /\ cursor_y = 0
    /\ offset_y = 0
    /\ height = 0
    /\ width = 0
    /\ k = "NUL"
    /\ pc = "start"
    /\ calls = << Call("info", ""), Call("df", ""), Call("run_df", "") >>
    /\ reads = 0
    /\ err = ""
    /\ lk = NoLookup

Next ==
    \/ FirstFrame
    \/ FrameTab
    \/ FrameBackTab
    \/ FrameDown
    \/ FrameUp
    \/ FrameRight
    \/ FrameLeft
    \/ FrameEnter
    \/ FrameRefresh
    \/ FrameDelete
    \/ FrameOther
    \/ Quit

Spec == Init /\ [][Next]_vars

(***************************************************************************)
(* Properties of the loop, checked under Spec.                              *)
(***************************************************************************)
Snapshot == << docker_info, docker_df, docker_root_fs >>
FrameDone == pc \in { "getch", "done" }
FetchCalls == << Call("info", ""), Call("df", ""), Call("run_df", "") >>
Categories == { "Images", "Containers", "Volumes", "BuildCache" }

\* the rows the handler of the active mode derives from the held snapshot
DerivedRows ==
    prepare_content(view_mode, docker_info, docker_df, docker_root_fs, cols).rows
DerivedCols ==
    prepare_content(view_mode, docker_info, docker_df, docker_root_fs, cols).cols

\* C1: after every processed input event the cursor row is in range: with
\* R >= 1 rows 0 <= cursor_y <= R-1, with no rows cursor_y = -1.
C1_CursorRowInRange ==
    FrameDone =>
        IF Len(rows) >= 1
        THEN 0 <= cursor_y /\ cursor_y <= Len(rows) - 1
        ELSE cursor_y = -1

\* C1 witness: a down key on the last row of a one-row set was clamped.
C1_Witness_ClampedAtLastRow ==
    /\ pc = "getch" /\ k \in DownKeys /\ Len(rows) = 1 /\ cursor_y = 0

\* C2: for every client height H >= 1, after the clamp+scroll pass of a
\* frame 0 <= offset <= max(0, cursor_y).
C2_OffsetWithinCursor ==
    (FrameDone /\ client_height(height) >= 1) =>
        (0 <= offset_y /\ offset_y <= Max2(0, cursor_y))

\* C3: after a frame in which a next-mode or previous-mode key changed the
\* view mode, the cursor row is 0 (-1 without rows), the offset is 0, and
\* rows and columns are those derived for the new mode from the snapshot.
C3_ModeSwitchResets ==
    [][ ( /\ pc = "getch" /\ pc' = "getch"
          /\ k' \in TabKeys \cup BackTabKeys
          /\ view_mode' # view_mode )
        => ( /\ cursor_y' = (IF Len(rows') = 0 THEN -1 ELSE 0)
             /\ offset_y' = 0
             /\ rows' = DerivedRows'
             /\ cols' = DerivedCols' ) ]_vars

\* C4: at the end of every frame, refresh and delete frames included, the
\* displayed rows are the rows derived for the active mode from the held
\* snapshot.
C4_RowsMatchSnapshot == pc = "getch" => rows = DerivedRows

\* C5: the delete key on a row that is not a Container row makes no engine
\* call and leaves the snapshot unchanged.
C5_DeleteOffContainerIsNoOp ==
    [][ ( /\ pc = "getch" /\ k' \in DeleteKeys
          /\ PyIndexOk(cursor_y, Len(rows))
          /\ PyIndex(rows, cursor_y).kind # "Container" )
        => ( calls' = << >> /\ Snapshot' = Snapshot ) ]_vars

\* C6: the delete key on a Container row invokes the engine's delete once,
\* with the identifier of that row (get, then remove unless get failed),
\* and a frame is drawn after it only when the snapshot has been fetched
\* again after the delete.
C6_DeleteOnceThenFetch ==
    [][ ( /\ pc = "getch" /\ k' \in DeleteKeys
          /\ PyIndexOk(cursor_y, Len(rows))
          /\ PyIndex(rows, cursor_y).kind = "Container" )
        => LET id == PyIndex(rows, cursor_y).row["Id"]
               n == Len(calls')
           IN  /\ n >= 1 /\ calls'[1] = Call("get", id)
               /\ \A i \in 2..n : calls'[i][1] # "get"
               /\ \A i \in 1..n : calls'[i][1] = "remove"
                                    => (i = 2 /\ calls'[i] = Call("remove", id))
               /\ pc' = "getch" =>
                     /\ calls' = << Call("get", id), Call("remove", id) >>
                                    \o FetchCalls
                     /\ id \notin engine'.containers
                     /\ docker_info' = EngineInfo(engine')
                     /\ docker_df' = EngineDf(engine') ]_vars

\* C6 witness: the delete key on the second Container row removed c1 and the
\* snapshot was fetched again.
C6_Witness_DeletedSecondRow ==
    /\ pc = "getch" /\ k \in DeleteKeys /\ cursor_y = 1
    /\ calls = << Call("get", "c1"), Call("remove", "c1") >> \o FetchCalls
    /\ "c1" \notin engine.containers

\* C7: when an engine call fails during a refresh or the fetch after a
\* delete, the held snapshot stays the last fetched one in every component
\* and the loop keeps running.
C7_FailedFetchKeepsSnapshot ==
    [][ ( /\ pc = "getch" /\ k' \in RefreshKeys \cup DeleteKeys
          /\ err' = "DockerException"
          /\ calls'[Len(calls')][1] \in { "info", "df", "run_df" } )
        => ( Snapshot' = Snapshot /\ pc' = "getch" ) ]_vars

\* the view mode that lists a category
C8_ModeOf(c) ==
    CASE c = "Images" -> VIEW_MODE_IMAGES
      [] c = "Containers" -> VIEW_MODE_CONTAINERS
      [] c = "Volumes" -> VIEW_MODE_VOLUMES
      [] c = "BuildCache" -> VIEW_MODE_BUILD_CACHE

\* C8: with a category collection absent from the snapshot every frame
\* completes without an error, and the mode of the absent category shows no
\* rows.
C8_AbsentCategoryDegrades ==
    \A c \in Categories :
        c \notin DOMAIN docker_df =>
            /\ pc # "crashed"
            /\ (pc = "getch" /\ view_mode = C8_ModeOf(c)) => rows = << >>

\* C10: the enter key and the delete key on an empty row set raise no error
\* and change neither the snapshot nor the rows.
C10_EmptyRowsKeysAreSafe ==
    [][ ( /\ pc = "getch" /\ k' \in EnterKeys \cup DeleteKeys
          /\ rows = << >> )
        => ( pc' = "getch" /\ rows' = rows /\ Snapshot' = Snapshot ) ]_vars

\* C11: the view mode is always one of the six modes 0..5; the next-mode key
\* moves mode m to (m+1) mod 6, the previous-mode key moves it to max(0, m-1)
\* and no other key changes the mode.
C11_ModeArithmetic ==
    /\ [](view_mode \in 0..5)
    /\ [][ view_mode' =
             IF pc = "getch" /\ k' \in TabKeys
             THEN (IF view_mode = 5 THEN 0 ELSE view_mode + 1)
             ELSE IF pc = "getch" /\ k' \in BackTabKeys
             THEN (IF view_mode = 0 THEN 0 ELSE view_mode - 1)
             ELSE view_mode ]_vars

\* C11 witness: the next-mode key wrapped from SystemInfo to Summary (the
\* next-mode key always moves, so Summary after it was SystemInfo before).
C11_Witness_WrappedToSummary ==
    pc = "getch" /\ k \in TabKeys /\ view_mode = VIEW_MODE_SUMMARY

\* C12: every next-mode or previous-mode key, one that leaves the mode the
\* same included, ends its frame with cursor row 0 and scroll offset 0.
C12_ModeKeyAlwaysResets ==
    [][ ( /\ pc = "getch" /\ pc' = "getch"
          /\ k' \in TabKeys \cup BackTabKeys )
        => ( cursor_y' = 0 /\ offset_y' = 0 ) ]_vars

\* C13: the refresh key keeps the cursor row when that row still exists
\* (else the row is clamped to the last one), and the offset is not reset:
\* it moves by at most the one step of the scroll rule.
C13_RefreshKeepsPosition ==
    [][ ( pc = "getch" /\ pc' = "getch" /\ k' \in RefreshKeys )
        => ( /\ cursor_y' = (IF cursor_y <= Len(rows') - 1 THEN cursor_y
                              ELSE Len(rows') - 1)
             /\ offset_y' =
                   (IF cursor_y' - offset_y + 4 > height' - 5
                    THEN offset_y + 1
                    ELSE IF offset_y > 0 /\ cursor_y' - offset_y < 4
                    THEN offset_y - 1
                    ELSE offset_y) ) ]_vars

\* C13 witness: a refresh frame ended away from the top: cursor row and
\* offset both above 0.
C13_Witness_RefreshedBelowTop ==
    pc = "getch" /\ k \in RefreshKeys /\ cursor_y >= 2 /\ offset_y >= 1
    /\ calls = FetchCalls

\* C14: a key that is none of the recognized keys causes no error and no
\* engine call and leaves view mode, snapshot, rows and columns as they
\* were; cursor and offset change only by the clamp and scroll pass.
C14_OtherKeysIgnored ==
    [][ ( pc = "getch" /\ k' \notin KnownKeys )
        => ( /\ pc' = "getch" /\ err' = ""
             /\ calls' = << >>
             /\ view_mode' = view_mode /\ render_mode' = render_mode
             /\ Snapshot' = Snapshot /\ engine' = engine
             /\ rows' = rows /\ cols' = cols
             /\ cursor_x' = (IF cursor_x > width' - 1 THEN width' - 1
                              ELSE cursor_x)
             /\ cursor_y' = cursor_y
             /\ offset_y' =
                   (IF cursor_y - offset_y + 4 > height' - 5
                    THEN offset_y + 1
                    ELSE IF offset_y > 0 /\ cursor_y - offset_y < 4
                    THEN offset_y - 1
                    ELSE offset_y) ) ]_vars

\* C14 witness: an unrecognized key was processed below the first row in a
\* mode other than Summary.
C14_Witness_OtherKeyBelowTop ==
    pc = "getch" /\ k \notin KnownKeys /\ k # "NUL"
    /\ cursor_y >= 1 /\ view_mode # VIEW_MODE_SUMMARY

\* the curated info fields, in declaration order
C18_Curated == << "ServerVersion", "Name", "OperatingSystem", "OSType",
                  "KernelVersion", "Containers", "Images" >>

\* the key/value lines of C18 for an info block: the curated fields, then
\* the fields that are not curated, in the order of the block
C18_Lines(di) ==
    LET rest == SelectSeq(di, LAMBDA kv :
                    \A i \in 1..Len(C18_Curated) : kv[1] # C18_Curated[i])
    IN  [ i \in 1..Len(C18_Curated) |->
            DisplayKeyVal(C18_Curated[i], InfoGet(di, C18_Curated[i])) ]
        \o [ i \in 1..Len(rest) |-> DisplayKeyVal(rest[i][1], rest[i][2]) ]

\* C18: in SystemInfo mode the rows are one key/value line per info field:
\* the curated fields first, in declaration order, then every remaining
\* field in snapshot key order, each field of the snapshot exactly once.
C18_SystemInfoRows ==
    [][ ( /\ pc = "getch" /\ pc' = "getch"
          /\ view_mode # VIEW_MODE_SYSTEM_INFO
          /\ view_mode' = VIEW_MODE_SYSTEM_INFO )
        => ( /\ Len(rows') = Len(docker_info')
             /\ rows' = C18_Lines(docker_info') ) ]_vars

\* C22: the progress overlay of a refresh or a delete does not wait: a frame
\* on the refresh key or the delete key reads no key from the terminal (the
\* overlay precedes the engine calls of the frame), and a frame in which a
\* key is read inside the handler is a frame on the confirm key.
C22_OverlayDoesNotBlock ==
    [][ (pc = "getch" /\ pc' # "done") =>
          /\ (k' \in RefreshKeys \cup DeleteKeys => reads' = 0)
          /\ (reads' > 0 => k' \in EnterKeys) ]_vars

\* C23: the held snapshot is replaced only by a fetch: at startup, on the
\* refresh key, or after the delete key. A frame on any other key (mode
\* switch, directional key, confirm key) issues no engine call and leaves
\* the snapshot unchanged, and a mode switch derives its rows from the
\* snapshot held before the frame.
C23_OnlyFetchReplacesSnapshot ==
    [][ ( pc \in { "start", "getch" } /\ pc' # "done" ) =>
          /\ ( k' \notin RefreshKeys \cup DeleteKeys =>
                  /\ calls' = << >>
                  /\ Snapshot' = Snapshot
                  /\ ( ( pc' = "getch" /\ view_mode' # view_mode ) =>
                         rows' = prepare_content(view_mode', docker_info,
                                     docker_df, docker_root_fs, cols).rows ) )
          /\ ( Snapshot' # Snapshot =>
                  \E i \in 1..Len(calls') : calls'[i] \in
                      { Call("info", ""), Call("df", ""), Call("run_df", "") } )
      ]_vars

\* C23 witness: a next-mode key has switched to Containers without an engine
\* call, and the rows are those of the held snapshot.
C23_Witness_SwitchedToContainers ==
    /\ pc = "getch" /\ k \in TabKeys /\ view_mode = VIEW_MODE_CONTAINERS
    /\ calls = << >> /\ Len(rows) > 0 /\ rows = DerivedRows

\* the names of the columns of a table mode, in order
C25_ColumnNames(mode) ==
    CASE mode = VIEW_MODE_SUMMARY -> << "Type", "Value", "Percent", "Progress" >>
      [] mode = VIEW_MODE_IMAGES ->
             << "RepoTags", "Size", "SharedSize", "VirtualSize" >>
      [] mode = VIEW_MODE_VOLUMES -> << "Name", "Mountpoint", "Size" >>
      [] mode = VIEW_MODE_CONTAINERS ->
             << "Names", "Command", "Image", "State", "SizeRootFs", "Created" >>
      [] mode = VIEW_MODE_BUILD_CACHE ->
             << "Type", "Description", "Size", "Shared", "InUse", "LastUsedAt" >>

\* the row variant of a mode
C25_RowKind(mode) ==
    CASE mode = VIEW_MODE_SUMMARY -> "Summary"
      [] mode = VIEW_MODE_IMAGES -> "Image"
      [] mode = VIEW_MODE_VOLUMES -> "Volume"
      [] mode = VIEW_MODE_CONTAINERS -> "Container"
      [] mode = VIEW_MODE_BUILD_CACHE -> "BuildCache"
      [] mode = VIEW_MODE_SYSTEM_INFO -> "KeyVal"

\* C25: whenever a frame is drawn, the render mode and the row set match the
\* active view mode: SystemInfo is drawn in row-list mode with key/value line
\* rows only, and each of Summary, Images, Containers, Volumes and BuildCache
\* is drawn in table mode with that mode's columns and rows of that mode's
\* variant only.
C25_ContentMatchesMode ==
    pc = "getch" =>
        /\ \A i \in 1..Len(rows) : rows[i].kind = C25_RowKind(view_mode)
        /\ IF view_mode = VIEW_MODE_SYSTEM_INFO
           THEN render_mode = RENDER_MODE_ROWS
           ELSE /\ render_mode = RENDER_MODE_TABLE
                /\ [ i \in 1..Len(cols) |-> cols[i].name ]
                       = C25_ColumnNames(view_mode)

\* C25 witness: the next-mode key has left BuildCache (a table) and SystemInfo
\* is drawn as a row list of key/value lines.
C25_Witness_SystemInfoDrawn ==
    /\ pc = "getch" /\ k \in TabKeys /\ view_mode = VIEW_MODE_SYSTEM_INFO
    /\ render_mode = RENDER_MODE_ROWS /\ Len(rows) > 0
    /\ \A i \in 1..Len(rows) : rows[i].kind = "KeyVal"

(***************************************************************************)
(* The field lookup on its own: SpecLookup draws a table row of any kind,   *)
(* of any record shape the engine may answer (a record of the engine, or    *)
(* one that lacks one of its keys), and a column of the row's mode, and     *)
(* applies DisplayTableRow.__getitem__ to them.                             *)
(***************************************************************************)
MaxRecords == 3      \* records of one category the lookup is tried on

\* the records of a category, as the engine lists them
KindRecords(kind) ==
    CASE kind = "Image" -> EngineImages
      [] kind = "Container" -> ContainerList(ContainerIds)
      [] kind = "Volume" -> EngineVolumes
      [] kind = "BuildCache" -> EngineBuildCache
      [] OTHER -> << >>

\* the columns of the mode that shows rows of the kind
KindCols(kind) ==
    CASE kind = "Image" -> images_cols
      [] kind = "Container" -> containers_cols
      [] kind = "Volume" -> volumes_cols
      [] kind = "BuildCache" -> build_cache_cols
      [] kind = "Summary" -> summary_cols

AllDfKeys == [ containers |-> ContainerIds, absent |-> {} ]

DropKey(rec, key) == [ x \in DOMAIN rec \ { key } |-> rec[x] ]

\* the row object of a lookup input
LookupRow(in) ==
    IF in.kind = "Summary"
    THEN draw_summary(EngineDf(AllDfKeys), EngineRootFs).rows[in.n]
    ELSE [ kind |-> in.kind, row |-> DropKey(KindRecords(in.kind)[in.n], in.drop) ]

LookupInputs ==
    { in \in [ kind : TableKinds, n : 1..MaxRecords,
               drop : { "", "Size", "SizeRootFs", "VirtualSize", "Names",
                        "Created", "UsageData", "LastUsedAt", "Shared",
                        "RepoTags", "Description", "Name" },
               col : 1..6 ] :
        /\ in.col <= Len(KindCols(in.kind))
        /\ IF in.kind = "Summary"
           THEN in.drop = "" /\ in.n <= 3
           ELSE /\ in.n <= Len(KindRecords(in.kind))
                /\ in.drop \in { "" } \cup DOMAIN KindRecords(in.kind)[in.n] }

InitLookup ==
    /\ lk \in { [ kind |-> in.kind, n |-> in.n, drop |-> in.drop,
                  index |-> KindCols(in.kind)[in.col].name,
                  done |-> FALSE, res |-> Returned("str", "") ] :
                in \in LookupInputs }
    /\ engine = AllDfKeys
    /\ docker_info = EngineInfo(engine)
    /\ docker_df = EngineDf(engine)
    /\ docker_root_fs = EngineRootFs
    /\ view_mode = VIEW_MODE_SUMMARY
    /\ render_mode = RENDER_MODE_ROWS
    /\ rows = << >>
    /\ cols = << >>
    /\ cursor_x = 0
    /\ cursor_y = 0
    /\ offset_y = 0
    /\ height = 0
    /\ width = 0
    /\ k = "NUL"
    /\ pc = "lookup"
    /\ calls = << >>
    /\ reads = 0
    /\ err = ""

\* row[index] is evaluated
Lookup ==
    /\ pc = "lookup"
    /\ ~lk.done
    /\ lk' = [ lk EXCEPT !.done = TRUE,
                         !.res = GetItem(LookupRow(lk), lk.index) ]
    /\ UNCHANGED << engine, docker_info, docker_df, docker_root_fs, view_mode,
                    render_mode, rows, cols, cursor_x, cursor_y, offset_y,
                    height, width, k, pc, calls, reads, err >>

NextLookup == Lookup

SpecLookup == InitLookup /\ [][NextLookup]_vars

\* C9: the field lookup on a table row of any kind, for any column of its
\* mode and any shape of the raw record, never raises and returns a string.
C9_LookupIsTotal == lk.done => (lk.res.ok /\ lk.res.ty = "str")

(***************************************************************************)
(* SpecResolve applies the same lookup to any name: the declared columns,   *)
(* keys of the raw records, names in another case and a name no row knows.  *)
(***************************************************************************)
ResolveNames == { "Size", "SIZE", "size", "Names", "NAMES", "Created", "Image",
                  "Id", "RepoTags", "UsageData", "Name", "Type", "Value",
                  "Shared", "Nope", "display_info" }

ResolveInputs ==
    { in \in [ kind : TableKinds, n : 1..MaxRecords,
               drop : { "", "Size", "Names", "Created", "UsageData", "Name",
                        "Shared", "RepoTags" },
               index : ResolveNames ] :
        IF in.kind = "Summary"
        THEN in.drop = "" /\ in.n <= 3
        ELSE /\ in.n <= Len(KindRecords(in.kind))
             /\ in.drop \in { "" } \cup DOMAIN KindRecords(in.kind)[in.n] }

InitResolve ==
    /\ lk \in { [ kind |-> in.kind, n |-> in.n, drop |-> in.drop,
                  index |-> in.index,
                  done |-> FALSE, res |-> Returned("str", "") ] :
                in \in ResolveInputs }
    /\ engine = AllDfKeys
    /\ docker_info = EngineInfo(engine)
    /\ docker_df = EngineDf(engine)
    /\ docker_root_fs = EngineRootFs
    /\ view_mode = VIEW_MODE_SUMMARY
    /\ render_mode = RENDER_MODE_ROWS
    /\ rows = << >>
    /\ cols = << >>
    /\ cursor_x = 0
    /\ cursor_y = 0
    /\ offset_y = 0
    /\ height = 0
    /\ width = 0
    /\ k = "NUL"
    /\ pc = "lookup"
    /\ calls = << >>
    /\ reads = 0
    /\ err = ""

SpecResolve == InitResolve /\ [][NextLookup]_vars

\* the field names a row variant overrides with a computed value, in lower
\* case (every variant inherits _get_display_info)
C19_Overrides(kind) ==
    { "display_info" } \cup
    CASE kind = "Image" -> { "repotags", "size", "sharedsize", "virtualsize",
                             "labels" }
      [] kind = "Container" -> { "sizerootfs", "created", "names",
                                 "networksettings" }
      [] kind = "Volume" -> { "size", "usagedata", "labels" }
      [] kind = "BuildCache" -> { "size", "lastusedat", "shared", "inuse" }
      [] kind = "Summary" -> {}

\* C19: the lookup resolves in this order: a computed override of the
\* variant for the name, matched without regard to case, gives the result;
\* else a key of the raw record gives the record's value; else the result
\* is the empty string, and nothing is raised.
C19_ResolutionOrder ==
    lk.done =>
        IF Lower(lk.index) \in C19_Overrides(lk.kind)
        THEN lk.res = (IF Lower(lk.index) = "display_info"
                       THEN DisplayInfo(LookupRow(lk))
                       ELSE GetMethod(LookupRow(lk), Lower(lk.index)))
        ELSE IF lk.index \in DOMAIN LookupRow(lk).row
             THEN lk.res.ok /\ lk.res.v = LookupRow(lk).row[lk.index]
             ELSE lk.res = [ ok |-> TRUE, ty |-> "str", v |-> "" ]

\* C19 witness: "SIZE" on an Image row, whose record has the key "Size"
\* only, gave the text of the size override, and not the raw number.
C19_Witness_OverrideAnyCase ==
    /\ lk.done /\ lk.kind = "Image" /\ lk.index = "SIZE"
    /\ "SIZE" \notin DOMAIN LookupRow(lk).row
    /\ lk.res.ok /\ lk.res.ty = "str"
    /\ lk.res.v = convert_size(LookupRow(lk).row["Size"])

(***************************************************************************)
(* The scrolling window on its own: SpecScroll holds the terminal at one    *)
(* size and the engine at ScrollRowCount images, and lets the operator      *)
(* start the program, open the Images mode and move the cursor up and down. *)
(***************************************************************************)
ScrollRowCount == 21     \* images of the engine in SpecScroll
ScrollHeights == { 15 }  \* the terminal height: client height 10
ScrollWidths == { 160 }

\* the images df() lists: sizes 100, 200, ...
ScrollImages ==
    [ i \in 1..ScrollRowCount |->
        [ Id |-> "i" \o ToString(i), RepoTags |-> << "img:" \o ToString(i) >>,
          Size |-> 100 * i, SharedSize |-> 0, VirtualSize |-> 100 * i ] ]

\* docker_client.df() of that engine
ScrollDf == [ EngineDf(AllDfKeys) EXCEPT !["Images"] = ScrollImages ]

\* docker_client.info() of that engine
ScrollInfo ==
    [ i \in 1..Len(EngineInfo(AllDfKeys)) |->
        IF EngineInfo(AllDfKeys)[i][1] = "Images"
        THEN << "Images", ScrollRowCount >>
        ELSE EngineInfo(AllDfKeys)[i] ]

\* DockUI.__init__ against that engine, on a terminal of one size
InitFixed(hs, ws) ==
    /\ lk \in [ done : { FALSE }, height : hs, width : ws, frames : { 0 } ]
    /\ engine = AllDfKeys
    /\ docker_info = ScrollInfo
    /\ docker_df = ScrollDf
    /\ docker_root_fs = EngineRootFs
    /\ view_mode = VIEW_MODE_SUMMARY
    /\ \E c \in { draw_summary(docker_df, docker_root_fs) } :
           /\ c.ok
           /\ rows = c.rows
           /\ cols = c.cols
           /\ render_mode = c.render_mode
    /\ cursor_x = 0
    /\ cursor_y = 0
    /\ offset_y = 0
    /\ height = 0
    /\ width = 0
    /\ k = "NUL"
    /\ pc = "start"
    /\ calls = FetchCalls
    /\ reads = 0
    /\ err = ""

\* one iteration of DockUI.loop on the terminal of the fixed size
FixedFrame(key) ==
    \E f \in { process_input(Begin(key, lk.height, lk.width), 0) } :
        Store(f, f.ok /\ draw(f))

InitScroll == InitFixed(ScrollHeights, ScrollWidths)

ScrollFirst == pc = "start" /\ FixedFrame("NUL") /\ UNCHANGED lk

\* the next-mode key in Summary mode opens the Images mode
ScrollTab ==
    /\ pc = "getch" /\ view_mode = VIEW_MODE_SUMMARY
    /\ \E key \in TabKeys \cap Keys : FixedFrame(key)
    /\ UNCHANGED lk

ScrollDown ==
    /\ pc = "getch"
    /\ \E key \in DownKeys \cap Keys : FixedFrame(key)
    /\ UNCHANGED lk

ScrollUp ==
    /\ pc = "getch"
    /\ \E key \in UpKeys \cap Keys : FixedFrame(key)
    /\ UNCHANGED lk

NextScroll == ScrollFirst \/ ScrollTab \/ ScrollDown \/ ScrollUp

SpecScroll == InitScroll /\ [][NextScroll]_vars

\* C15: with client height 10 and the row set unchanged, after each frame
\* that processes an up or down key, starting from cursor row 0 and offset
\* 0, cursor_y - offset <= client_height - 4, and the offset differs from
\* the one after the previous frame by at most 1.
C15_ScrollKeepsLookahead ==
    [][ ( /\ pc = "getch" /\ k' \in DownKeys \cup UpKeys
          /\ height' - 5 = 10 /\ rows' = rows )
        => ( /\ cursor_y' - offset_y' <= (height' - 5) - 4
             /\ offset_y' - offset_y \in { -1, 0, 1 } ) ]_vars

\* C15 witness: 20 downs from row 0 over 21 rows: the cursor is on row 20
\* and the window has followed it.
C15_Witness_TwentyDowns ==
    /\ pc = "getch" /\ k \in DownKeys /\ height - 5 = 10
    /\ Len(rows) >= 21 /\ cursor_y = 20 /\ offset_y = 14

(***************************************************************************)
(* The scrolling window left to settle: SpecSettle holds the terminal at    *)
(* one of several sizes; the operator starts the program, opens the Images  *)
(* mode and moves the cursor, and from some frame on presses only keys the  *)
(* program does not recognize.  lk.frames counts those frames.              *)
(***************************************************************************)
MaxSettleFrames == 6            \* frames of unrecognized keys explored
SettleHeights == { 12, 13, 15 }      \* client heights 7, 8, 10

InitSettle == InitFixed(SettleHeights, ScrollWidths)

SettleFirst == pc = "start" /\ FixedFrame("NUL") /\ UNCHANGED lk

SettleTab ==
    /\ pc = "getch" /\ lk.frames = 0 /\ view_mode = VIEW_MODE_SUMMARY
    /\ \E key \in TabKeys \cap Keys : FixedFrame(key)
    /\ UNCHANGED lk

SettleDown ==
    /\ pc = "getch" /\ lk.frames = 0
    /\ \E key \in DownKeys \cap Keys : FixedFrame(key)
    /\ UNCHANGED lk

SettleUp ==
    /\ pc = "getch" /\ lk.frames = 0
    /\ \E key \in UpKeys \cap Keys : FixedFrame(key)
    /\ UNCHANGED lk

\* a frame of a key that is not recognized
SettleOther ==
    /\ pc = "getch" /\ lk.frames < MaxSettleFrames
    /\ \E key \in Keys \ KnownKeys : FixedFrame(key)
    /\ lk' = [ lk EXCEPT !.frames = @ + 1 ]

NextSettle == SettleFirst \/ SettleTab \/ SettleDown \/ SettleUp \/ SettleOther

SpecSettle == InitSettle /\ [][NextSettle]_vars

\* C20: with terminal size, rows and cursor row held fixed, frames coming
\* from unrecognized keys only, for any client height >= 1 and any reachable
\* starting offset the offset reaches, within finitely many frames, a value
\* that no further frame changes, and there the cursor row is in the
\* visible range.  MaxSettleFrames frames are more than the offset needs:
\* it moves one step per frame and starts within 3 steps of every value the
\* scroll rule leaves alone.
C20_OffsetSettles ==
    ( pc = "getch" /\ lk.frames = MaxSettleFrames /\ height - 5 >= 1 ) =>
        /\ ~(cursor_y - offset_y + 4 > height - 5)
        /\ ~(offset_y > 0 /\ cursor_y - offset_y < 4)
        /\ (Len(rows) > 0 =>
               (offset_y <= cursor_y /\ cursor_y < offset_y + (height - 5)))

(***************************************************************************)
(* The whole loop on a terminal whose size never changes: SpecTerm is the   *)
(* program started on a terminal of one size, with every class of keys.     *)
(* Every engine call succeeds.                                              *)
(***************************************************************************)
TermHeights == { 9, 12, 15 }     \* client heights 4, 7, 10

InitTerm == InitFixed(TermHeights, ScrollWidths)

TermFirst == pc = "start" /\ FixedFrame("NUL") /\ UNCHANGED lk

\* the next-mode and previous-mode keys
TermMode ==
    /\ pc = "getch"
    /\ \E key \in (TabKeys \cup BackTabKeys) \cap Keys : FixedFrame(key)
    /\ UNCHANGED lk

\* the directional keys
TermMove ==
    /\ pc = "getch"
    /\ \E key \in (DownKeys \cup UpKeys \cup RightKeys \cup LeftKeys) \cap Keys :
          FixedFrame(key)
    /\ cursor_x' <= MaxCursorX
    /\ UNCHANGED lk

\* the confirm key
TermEnter ==
    /\ pc = "getch"
    /\ \E key \in EnterKeys \cap Keys : FixedFrame(key)
    /\ UNCHANGED lk

\* the refresh key and the delete key
TermEngine ==
    /\ pc = "getch"
    /\ \E key \in (RefreshKeys \cup DeleteKeys) \cap Keys : FixedFrame(key)
    /\ UNCHANGED lk

\* a key that is not recognized
TermOther ==
    /\ pc = "getch"
    /\ \E key \in Keys \ KnownKeys : FixedFrame(key)
    /\ UNCHANGED lk

NextTerm ==
    TermFirst \/ TermMode \/ TermMove \/ TermEnter \/ TermEngine \/ TermOther

SpecTerm == InitTerm /\ [][NextTerm]_vars

\* C21: with the terminal size fixed since startup, client height >= 4 and
\* a non-empty row set, after every frame, whatever key it processed, the
\* selected row is inside the drawn range:
\* offset <= cursor_y < min(len(rows), offset + client_height).
C21_SelectedRowVisible ==
    ( pc = "getch" /\ height - 5 >= 4 /\ Len(rows) > 0 ) =>
        /\ offset_y <= cursor_y
        /\ cursor_y < (IF Len(rows) < offset_y + (height - 5)
                        THEN Len(rows) ELSE offset_y + (height - 5))

\* C21 witness: at client height 4 the cursor is past the first page of the
\* rows and the window has followed it.
C21_Witness_SecondPage ==
    /\ pc = "getch" /\ height - 5 = 4 /\ Len(rows) > 8
    /\ cursor_y >= 6 /\ offset_y >= 3

\* C24: in every frame, in row-list and in table mode, every body row of
\* the visible range is drawn on a line strictly between the chrome above
\* (border, header, separator, and in table mode the column header) and the
\* status-bar line at terminal height - 2.
C24_BodyRowsInsideChrome ==
    pc = "getch" =>
        \A i \in VisibleRows([ rows |-> rows, offset_y |-> offset_y,
                                height |-> height ]) :
            /\ chrome_end(render_mode) < row_y(render_mode, i, offset_y)
            /\ row_y(render_mode, i, offset_y) < statusbar_y(height)

(***************************************************************************)
(* The handlers of the four list modes on their own: SpecSort draws a mode  *)
(* and the list of its category in a df() answer, with any sort keys in any *)
(* order, and applies _prepare_content.                                     *)
(***************************************************************************)
MaxSortLen == 3                       \* records of the category
SortValues == { 10, 500, 2000000 }    \* their sort keys

SortKinds == { "Image", "Container", "Volume", "BuildCache" }

SortCategory(kind) ==
    CASE kind = "Image" -> "Images"
      [] kind = "Container" -> "Containers"
      [] kind = "Volume" -> "Volumes"
      [] kind = "BuildCache" -> "BuildCache"

SortMode(kind) ==
    CASE kind = "Image" -> VIEW_MODE_IMAGES
      [] kind = "Container" -> VIEW_MODE_CONTAINERS
      [] kind = "Volume" -> VIEW_MODE_VOLUMES
      [] kind = "BuildCache" -> VIEW_MODE_BUILD_CACHE

\* the i-th record of a category, with the sort key v
SortRecord(kind, i, v) ==
    CASE kind = "Image" ->
            [ Id |-> "i" \o ToString(i), RepoTags |-> << "img:" \o ToString(i) >>,
              Size |-> v, SharedSize |-> 0, VirtualSize |-> v ]
      [] kind = "Container" ->
            [ Id |-> "c" \o ToString(i), Names |-> << "/n" \o ToString(i) >>,
              Command |-> "sh", Image |-> "img:1", State |-> "exited",
              SizeRootFs |-> 1000, Created |-> v ]
      [] kind = "Volume" ->
            [ Name |-> "v" \o ToString(i), Mountpoint |-> "/v" \o ToString(i),
              UsageData |-> [ Size |-> v, RefCount |-> 1 ] ]
      [] kind = "BuildCache" ->
            [ ID |-> "b" \o ToString(i), Type |-> "regular",
              Description |-> "RUN make", Size |-> v, Shared |-> FALSE,
              InUse |-> TRUE, LastUsedAt |-> 18000 ]

SortInputs ==
    UNION { [ kind : SortKinds, keys : [ 1..n -> SortValues ] ] :
            n \in 0..MaxSortLen }

\* the df() answer that lists the records of the input
SortDf(in) ==
    [ EngineDf(AllDfKeys) EXCEPT ![SortCategory(in.kind)] =
        [ i \in 1..Len(in.keys) |-> SortRecord(in.kind, i, in.keys[i]) ] ]

InitSort ==
    /\ \E in \in SortInputs :
           /\ lk = [ done |-> FALSE, kind |-> in.kind ]
           /\ docker_df = SortDf(in)
           /\ view_mode = SortMode(in.kind)
    /\ engine = AllDfKeys
    /\ docker_info = EngineInfo(engine)
    /\ docker_root_fs = EngineRootFs
    /\ render_mode = RENDER_MODE_ROWS
    /\ rows = << >>
    /\ cols = << >>
    /\ cursor_x = 0
    /\ cursor_y = 0
    /\ offset_y = 0
    /\ height = 0
    /\ width = 0
    /\ k = "NUL"
    /\ pc = "sort"
    /\ calls = << >>
    /\ reads = 0
    /\ err = ""

\* self._prepare_content() in the mode
SortRows ==
    /\ pc = "sort"
    /\ ~lk.done
    /\ \E c \in { prepare_content(view_mode, docker_info, docker_df,
                                   docker_root_fs, cols) } :
           /\ c.ok
           /\ rows' = c.rows
           /\ cols' = c.cols
           /\ render_mode' = c.render_mode
    /\ lk' = [ lk EXCEPT !.done = TRUE ]
    /\ UNCHANGED << engine, docker_info, docker_df, docker_root_fs, view_mode,
                    cursor_x, cursor_y, offset_y, height, width, k, pc, calls,
                    reads, err >>

NextSort == SortRows

SpecSort == InitSort /\ [][NextSort]_vars

\* the value a mode orders its rows by
C16_Key(r) ==
    CASE r.kind = "Image" -> r.row["Size"]
      [] r.kind = "Container" -> r.row["Created"]
      [] r.kind = "Volume" -> r.row["UsageData"]["Size"]
      [] r.kind = "BuildCache" -> r.row["Size"]

\* C16: in Images mode the rows are exactly the snapshot's images, none
\* lost and none duplicated, ordered by size descending; Containers rows
\* are ordered by creation time descending, Volumes rows by usage size
\* descending and BuildCache rows by size descending.
C16_RowsSortedDescending ==
    lk.done =>
        LET recs == docker_df[SortCategory(lk.kind)]
            n == Len(recs)
        IN  /\ Len(rows) = n
            /\ \A i \in 1..n : rows[i].kind = lk.kind
            /\ \E p \in [ 1..n -> 1..n ] :
                   /\ \A i, j \in 1..n : p[i] = p[j] => i = j
                   /\ \A i \in 1..n : rows[i].row = recs[p[i]]
            /\ \A i, j \in 1..n : i < j => C16_Key(rows[i]) >= C16_Key(rows[j])

\* C16 witness: the images of sizes 500, 2000000, 10 are listed in the order
\* 2000000, 500, 10.
C16_Witness_ImagesExample ==
    /\ lk.done /\ lk.kind = "Image"
    /\ Len(docker_df["Images"]) = 3
    /\ [ i \in 1..3 |-> docker_df["Images"][i]["Size"] ] = << 500, 2000000, 10 >>
    /\ [ i \in 1..3 |-> rows[i].row["Size"] ] = << 2000000, 500, 10 >>

(***************************************************************************)
(* The column widths of draw_table on their own: SpecWidths draws the       *)
(* column list of a tabular mode and a terminal width and resolves the      *)
(* widths as render_row does.                                               *)
(***************************************************************************)
MaxTermWidth == 200     \* the widest terminal

\* the terminal widths getmaxyx may report: 80 columns and wider
TermWidths == 80..MaxTermWidth

TableCols == { summary_cols, images_cols, volumes_cols, containers_cols,
               build_cache_cols }

InitWidths ==
    /\ cols \in TableCols
    /\ width \in TermWidths
    /\ lk = [ done |-> FALSE, res |-> << >>, extent |-> 0 ]
    /\ engine = AllDfKeys
    /\ docker_info = EngineInfo(engine)
    /\ docker_df = EngineDf(engine)
    /\ docker_root_fs = EngineRootFs
    /\ view_mode = VIEW_MODE_SUMMARY
    /\ render_mode = RENDER_MODE_TABLE
    /\ rows = << >>
    /\ cursor_x = 0
    /\ cursor_y = 0
    /\ offset_y = 0
    /\ height = 0
    /\ k = "NUL"
    /\ pc = "widths"
    /\ calls = << >>
    /\ reads = 0
    /\ err = ""

\* render_row walks the columns
ResolveWidths ==
    /\ pc = "widths"
    /\ ~lk.done
    /\ lk' = [ done |-> TRUE,
               res |-> [ i \in 1..Len(cols) |-> cell_width(cols[i], width) ],
               extent |-> row_extent(cols, width) ]
    /\ UNCHANGED << engine, docker_info, docker_df, docker_root_fs, view_mode,
                    render_mode, rows, cols, cursor_x, cursor_y, offset_y,
                    height, width, k, pc, calls, reads, err >>

NextWidths == ResolveWidths

SpecWidths == InitWidths /\ [][NextWidths]_vars

\* C17: for the column list of every tabular mode and every terminal width
\* W, a fractional width f resolves to floor((W-2)*f) and an integer width
\* to itself, and the resolved widths plus 2 cells of padding per column
\* sum to at most W - 2.
C17_ColumnWidthsFit ==
    lk.done =>
        /\ \A i \in 1..Len(cols) :
              IF cols[i].wnum < cols[i].wden
              THEN /\ lk.res[i] * cols[i].wden <= (width - 2) * cols[i].wnum
                   /\ (width - 2) * cols[i].wnum < (lk.res[i] + 1) * cols[i].wden
              ELSE lk.res[i] * cols[i].wden = cols[i].wnum
        /\ lk.extent <= width - 2

====
